---------------------------- MODULE Spec2Model ----------------------------
(***************************************************************************)
(* The DMA pulse-train engine of PyCNC (src/rpgpio.py, class DMAGPIO) and  *)
(* the hardware it programs: a buffer of 32-byte DMA control blocks, the   *)
(* DMA channel that walks the chain, the PWM peripheral pacing the delay   *)
(* blocks and the GPIO lines the pulse blocks drive.                       *)
(*                                                                         *)
(* The controlling thread issues whole API calls (one action per call);    *)
(* the DMA channel executes one control block per HwExec step.  Class      *)
(* GPIO of the same file, driving the GPIO peripheral register by          *)
(* register, has its own specification, GpioSpec.                          *)
(***************************************************************************)
EXTENDS Integers, Sequences, FiniteSets, TLC

\* ---------------------------------------------------------------- bounds
\* Capacity of the control-block buffer in blocks (32 MB in the program).
BufBlocks == 4
\* API calls issued by the controlling thread in one behaviour.
MaxCalls == 5
\* Laps of a looped chain that are counted (the hardware keeps looping).
MaxLaps == 1
\* Calls made on a GPIO object in one behaviour.
MaxGpioCalls == 3

\* ------------------------------------------------------ program constants
\* DMAGPIO._DMA_CONTROL_BLOCK_SIZE
CB == 32
\* byte offset of the 'next' word inside a control block (finalize_stream, run)
NEXT_OFF == 20
\* length2 = 16 * length_us
LEN_PER_US == 16
\* CM_DIV_VALUE(50): divisor of the PWM clock
CLK_DIV == 50
\* PWM_RNG1 value
PWM_RANGE == 100

\* --------------------------------------- platform (rpgpio_private) values
\* Bus address of the buffer (CMAPhysicalMemory.get_bus_address()), 32-byte aligned.
BusBase == 32 * 128
\* PHYSICAL_GPIO_BUS, GPIO_SET_OFFSET, GPIO_CLEAR_OFFSET, PHYSICAL_PWM_BUS
PHYSICAL_GPIO_BUS == 2116026368
GPIO_SET_OFFSET == 28
GPIO_CLEAR_OFFSET == 40
PHYSICAL_PWM_BUS == 2116075520
\* PWM FIFO register offset (self._delay_destination = PHYSICAL_PWM_BUS + 0x18)
PWM_FIFO_OFF == 24
\* Frequency of PLLD, the clock source selected by CM_SRC_PLLD, in MHz.
PLLD_MHZ == 500
\* Bytes of one PWM FIFO word (one paced DMA write).
FIFO_WORD == 4

\* Buffer capacity in bytes: CMAPhysicalMemory.get_size().
Size == BufBlocks * CB

\* Two GPIO lines are modelled (bits 0 and 1 of pins_mask).
\* The lengths (microseconds) offered to add_delay.
Lengths == {1, 2}
\* The <<pins_mask, length_us>> pairs offered to add_pulse: one line and both.
PulseArgs == {<<1, 1>>, <<3, 2>>}

\* ------------------------------------------------------------ bit helpers
Pow2(i) == IF i = 0 THEN 1 ELSE 2
Bit(m, i) == (m \div Pow2(i)) % 2
\* bitwise OR and AND-NOT of two masks over Pins
BitOr(a, b) ==
    (IF Bit(a, 0) = 1 \/ Bit(b, 0) = 1 THEN 1 ELSE 0)
  + (IF Bit(a, 1) = 1 \/ Bit(b, 1) = 1 THEN 2 ELSE 0)
BitAndNot(a, b) ==
    (IF Bit(a, 0) = 1 /\ Bit(b, 0) = 0 THEN 1 ELSE 0)
  + (IF Bit(a, 1) = 1 /\ Bit(b, 1) = 0 THEN 2 ELSE 0)

Min(a, b) == IF a < b THEN a ELSE b

IsPrefix(s, t) == Len(s) <= Len(t) /\ SubSeq(t, 1, Len(s)) = s

\* ------------------------------------------------- control-block encoding
\* DMA_TI_TXFR_LEN_YLENGTH(y) | DMA_TI_TXFR_LEN_XLENGTH(x)
TXFR_LEN(y, x) == y * 65536 + x
\* DMA_TI_STRIDE_D_STRIDE(d) | DMA_TI_STRIDE_S_STRIDE(s)
STRIDE(d, s) == d * 65536 + s

\* self._delay_info, self._delay_destination, self._delay_stride
delay_info == {"NO_WIDE_BURSTS", "SRC_IGNORE", "PER_MAP_PWM", "DEST_DREQ"}
delay_destination == PHYSICAL_PWM_BUS + PWM_FIFO_OFF
delay_stride == 0
\* self._pulse_info, self._pulse_destination, self._pulse_length, self._pulse_stride
pulse_info == {"NO_WIDE_BURSTS", "TDMODE", "WAIT_RESP"}
pulse_destination == PHYSICAL_GPIO_BUS + GPIO_SET_OFFSET
pulse_length == TXFR_LEN(2, 4)
pulse_stride == STRIDE(12, 4)

\* One 8-word control block: words 0..7 of the hardware layout.
Block(info, src, dst, len, stride, next, d0, d1) ==
    [info |-> info, src |-> src, dst |-> dst, len |-> len,
     stride |-> stride, next |-> next, d0 |-> d0, d1 |-> d1]

\* A block of the buffer the program never wrote: its content is unknown.
NoBlock == Block({"?"}, -1, -1, -1, -1, -1, -1, -1)

BlockIdx == 0..(BufBlocks - 1)

VARIABLES
    mem,          \* the buffer: block index -> control block (NoBlock: never written)
    cur,          \* DMAGPIO.__current_address, a byte offset
    released,     \* the buffer has been unmapped / freed
    dmaCS,        \* DMA channel CS register: the set of flags that read as 1
    conblk,       \* DMA channel CONBLK_AD register (bus address, 0 = none)
    pwmOn,        \* PWM_CTL has PWEN1: the pacing peripheral runs
    pwmRng,       \* PWM_RNG1
    clkDiv,       \* CM_DIV divisor (0: never programmed)
    level,        \* output level of the GPIO lines, a mask over Pins
    hwLog,        \* what the channel executed in the current lap of the chain
    laps,         \* completed laps of a looped chain since the last start
    fault,        \* the channel loaded a block the program never wrote
    lastOp,       \* the last API call and how it ended
    regw,         \* register writes of the last API call, in order
    bufw,         \* buffer writes of the last API call: <<byte offset, bytes>>
    reqs,         \* appends accepted since construction or the last clear()
    everCleared,  \* clear() has been called
    onlyAdds,     \* only appends were called since construction / last clear()
    mutated,      \* an append overwrote a block the running chain can reach
    nCalls,       \* API calls so far
    gpio          \* the GPIO peripheral as class GPIO drives it, and its last call

vars == <<mem, cur, released, dmaCS, conblk, pwmOn, pwmRng, clkDiv, level,
          hwLog, laps, fault, lastOp, regw, bufw, reqs, everCleared,
          onlyAdds, mutated, nCalls, gpio>>

\* The variables of the pulse-train engine and its DMA channel.
dmaVars == <<mem, cur, released, dmaCS, conblk, pwmOn, pwmRng, clkDiv, level,
             hwLog, laps, fault, lastOp, regw, bufw, reqs, everCleared,
             onlyAdds, mutated, nCalls>>

hwVars == <<dmaCS, conblk, pwmOn, pwmRng, clkDiv, level, hwLog, laps, fault>>

\* ------------------------------------------------------------ the buffer
\* CMAPhysicalMemory.write(address, data): consecutive 8-word blocks.
WriteBlocks(m, off, blocks) ==
    [i \in BlockIdx |->
        IF i >= off \div CB /\ i < off \div CB + Len(blocks)
        THEN blocks[i - off \div CB + 1] ELSE m[i]]

\* CMAPhysicalMemory.write_int(address, v) on a 'next' word (byte NEXT_OFF of
\* a block); a write outside the buffer changes no block.
WriteNext(m, off, v) ==
    [i \in BlockIdx |->
        IF off >= 0 /\ i = off \div CB /\ off % CB = NEXT_OFF /\ m[i] # NoBlock
        THEN [m[i] EXCEPT !.next = v] ELSE m[i]]

\* Block index of a bus address, or -1 when it is not a block of the buffer.
IdxOf(addr) ==
    IF addr >= BusBase /\ addr < BusBase + Size /\ (addr - BusBase) % CB = 0
    THEN (addr - BusBase) \div CB ELSE -1

\* The word the DMA reads at a bus address inside the trailing words of a block.
ReadWord(m, addr) ==
    LET off == addr - BusBase
        i == off \div CB
    IN  IF off < 0 \/ off >= Size \/ m[i] = NoBlock THEN -1
        ELSE IF off % CB = 24 THEN m[i].d0
        ELSE IF off % CB = 28 THEN m[i].d1
        ELSE -1

\* Blocks met when walking the 'next' fields from the chain head (offset 0).
RECURSIVE WalkFrom(_, _, _)
WalkFrom(m, addr, seen) ==
    LET i == IdxOf(addr)
    IN  IF i = -1 \/ i \in seen \/ m[i] = NoBlock THEN <<>>
        ELSE <<i>> \o WalkFrom(m, m[i].next, seen \cup {i})
Walk(m) == WalkFrom(m, BusBase, {})
Reachable(m) == {Walk(m)[k] : k \in 1..Len(Walk(m))}


\* ----------------------------------------------------------- the hardware
\* One register access of an API call: op "w" (write) or "r" (read).
W(reg, flags, num) == [op |-> "w", reg |-> reg, flags |-> flags, num |-> num]
R(reg, flags) == [op |-> "r", reg |-> reg, flags |-> flags, num |-> 0]

\* The registers as one record, for applying a call's writes in order.
HwRegs == [cs |-> dmaCS, conblk |-> conblk, pwmOn |-> pwmOn,
           rng |-> pwmRng, div |-> clkDiv]

CS_CONFIG == {"PRIORITY7", "PANIC_PRIORITY7", "DISDEBUG"}

\* Effect of one register access on the registers: the set of possible
\* outcomes.  DMA_CS: RESET clears the channel, END is write-1-to-clear,
\* ACTIVE starts (or, written as 0, pauses) the channel, ABORT is
\* self-clearing.  Writing CONBLK_AD while the channel is active is not
\* defined by the hardware: the channel takes the new address or keeps its own.
ApplyW(h, w) ==
    IF w.op = "r" THEN {h}
    ELSE IF w.reg = "PWM_CTL" THEN {[h EXCEPT !.pwmOn = ("PWEN1" \in w.flags)]}
    ELSE IF w.reg = "PWM_RNG1" THEN {[h EXCEPT !.rng = w.num]}
    ELSE IF w.reg = "CM_DIV" THEN
        {IF "PASSWORD" \in w.flags THEN [h EXCEPT !.div = w.num] ELSE h}
    ELSE IF w.reg = "DMA_CONBLK_AD" THEN
        IF "ACTIVE" \in h.cs THEN {h, [h EXCEPT !.conblk = w.num]}
        ELSE {[h EXCEPT !.conblk = w.num]}
    ELSE IF w.reg = "DMA_CS" THEN
        IF "RESET" \in w.flags THEN {[h EXCEPT !.cs = {}, !.conblk = 0]}
        ELSE {[h EXCEPT !.cs =
                  (w.flags \cap CS_CONFIG)
                  \cup (IF "ACTIVE" \in w.flags /\ h.conblk # 0
                        THEN {"ACTIVE"} ELSE {})
                  \cup (IF "END" \in h.cs /\ "END" \notin w.flags
                        THEN {"END"} ELSE {})]}
    ELSE {h}

RECURSIVE ApplyAll(_, _)
ApplyAll(H, ws) ==
    IF ws = <<>> THEN H
    ELSE ApplyAll(UNION {ApplyW(h, Head(ws)) : h \in H}, Tail(ws))

\* DMAGPIO.is_active(): the ACTIVE bit of the channel's CS register.
is_active == "ACTIVE" \in dmaCS

\* Register accesses of run_stream(), given the CS value it reads.
RunStreamWrites(cs) ==
    << W("PWM_CTL", {}, 0),
       W("CM_CNTL", {"PASSWORD", "SRC_PLLD"}, 0),
       R("CM_CNTL", {}),
       W("CM_DIV", {"PASSWORD"}, CLK_DIV),
       W("CM_CNTL", {"PASSWORD", "SRC_PLLD", "ENABLE"}, 0),
       W("PWM_RNG1", {}, PWM_RANGE),
       W("PWM_DMAC", {"ENAB", "PANIC15", "DREQ15"}, 0),
       W("PWM_CTL", {"CLRF"}, 0),
       W("PWM_CTL", {"USEF1", "PWEN1"}, 0),
       R("DMA_CS", cs),
       W("DMA_CS", cs \cup {"END"}, 0),
       W("DMA_CONBLK_AD", {}, BusBase),
       W("DMA_CS", CS_CONFIG, 0),
       W("DMA_CS", CS_CONFIG \cup {"ACTIVE"}, 0) >>

\* Mutant: stop() leaves out the reset write.
StopWrites_NoReset(cs) ==
    << W("PWM_CTL", {}, 0),
       R("DMA_CS", cs),
       W("DMA_CS", cs \cup {"ABORT"}, 0),
       W("DMA_CS", (cs \cup {"ABORT"}) \ {"ACTIVE"}, 0) >>
\* Register accesses of stop(), given the CS value it reads.
StopWrites(cs) ==
    << W("PWM_CTL", {}, 0),
       R("DMA_CS", cs),
       W("DMA_CS", cs \cup {"ABORT"}, 0),
       W("DMA_CS", (cs \cup {"ABORT"}) \ {"ACTIVE"}, 0),
       W("DMA_CS", ((cs \cup {"ABORT"}) \ {"ACTIVE"}) \cup {"RESET"}, 0) >>

\* What executing one control block does, as an event [k, a, b]:
\*   "gpio":  a = word written to the output-set register,
\*            b = word written to the output-clear register;
\*   "delay": a = bytes transferred to the PWM FIFO, b = pacing-clock ticks.
Ev(k, a, b) == [k |-> k, a |-> a, b |-> b]

\* Row r of a 2D transfer: source and destination move by their strides.
RowSrc(blk, r) == blk.src + r * (blk.stride % 65536)
RowDst(blk, r) == blk.dst + r * (blk.stride \div 65536)
Rows(blk) == blk.len \div 65536

\* OR of the words the rows of a 2D block write to GPIO register `reg`.
RECURSIVE RowsTo(_, _, _, _)
RowsTo(m, blk, reg, r) ==
    IF r >= Rows(blk) THEN 0
    ELSE BitOr(IF RowDst(blk, r) = PHYSICAL_GPIO_BUS + reg
                  /\ ReadWord(m, RowSrc(blk, r)) >= 0
               THEN ReadWord(m, RowSrc(blk, r)) ELSE 0,
               RowsTo(m, blk, reg, r + 1))

\* Ticks of the pacing clock a delay block stalls the chain: the PWM takes
\* one FIFO word per period of `rng` ticks.
DelayTicks(len, rng) == (len \div FIFO_WORD) * rng

BlockEvent(m, blk, rng) ==
    IF "TDMODE" \in blk.info
    THEN Ev("gpio", RowsTo(m, blk, GPIO_SET_OFFSET, 0),
                    RowsTo(m, blk, GPIO_CLEAR_OFFSET, 0))
    ELSE Ev("delay", blk.len, DelayTicks(blk.len, rng))

\* Level of the lines after a block's event: set bits go high, clear bits low.
LevelAfter(lv, ev) ==
    IF ev.k = "gpio" THEN BitAndNot(BitOr(lv, ev.a), ev.b) ELSE lv

\* The events of a whole chain, in the order a walk from the head meets them.
ChainEvents(m, rng) ==
    [k \in 1..Len(Walk(m)) |-> BlockEvent(m, m[Walk(m)[k]], rng)]
\* How the walk of a chain ends: "halt" (next = 0), "loop" (back to a block
\* already met) or "wild" (an address that holds no written block).
ChainEnd(m) ==
    LET w == Walk(m)
        last == IF w = <<>> THEN BusBase ELSE m[w[Len(w)]].next
    IN  IF w # <<>> /\ last = 0 THEN "halt"
        ELSE IF IdxOf(last) # -1 /\ m[IdxOf(last)] # NoBlock THEN "loop"
        ELSE "wild"


\* ------------------------------------------------------ the GPIO peripheral
\* class GPIO: the pin modes of init().
MODE_OUTPUT == 1
MODE_INPUT_NOPULL == 2
MODE_INPUT_PULLUP == 3
MODE_INPUT_PULLDOWN == 4
Modes == {MODE_OUTPUT, MODE_INPUT_NOPULL, MODE_INPUT_PULLUP,
          MODE_INPUT_PULLDOWN}

\* Register offsets of the GPIO block (rpgpio_private): function select,
\* pin level, pull control and pull clock.
GPIO_FSEL_OFFSET == 0
GPIO_INPUT_OFFSET == 52
GPIO_PULLUPDN_OFFSET == 148
GPIO_PULLUPDNCLK_OFFSET == 152

\* The pins the calls are made on: 0 and 9 share a function-select register
\* (first and last field) and a bank, 32 is the first pin of the second bank.
GpioPins == {0, 9, 32}
\* Function-select registers and banks of the block.
FselRegs == 0..5
Banks == 0..1

\* x << k
Shl(x, k) == x * (2 ^ k)
\* a | b and a & ~b on non-negative words
RECURSIVE OrW(_, _)
OrW(a, b) ==
    IF a = 0 THEN b
    ELSE IF b = 0 THEN a
    ELSE (IF a % 2 = 1 \/ b % 2 = 1 THEN 1 ELSE 0)
         + 2 * OrW(a \div 2, b \div 2)
RECURSIVE AndNotW(_, _)
AndNotW(a, b) ==
    IF a = 0 THEN 0
    ELSE (IF a % 2 = 1 /\ b % 2 = 0 THEN 1 ELSE 0)
         + 2 * AndNotW(a \div 2, b \div 2)
\* a & b
AndW(a, b) == AndNotW(a, AndNotW(a, b))
\* bit k of word a
BitAt(a, k) == (a \div (2 ^ k)) % 2
\* the 3-bit function-select field f of a register word
Field(v, f) == (v \div (8 ^ f)) % 8

\* One access of a GPIO call to the register window.
GW(addr, val) == [op |-> "w", addr |-> addr, val |-> val]
GR(addr, val) == [op |-> "r", addr |-> addr, val |-> val]

\* The pull state the two control bits of the pull control register select:
\* 1 is pull-down, 2 is pull-up, 0 is none (3 is reserved: no pull).
PullOf(bits) ==
    IF bits = 2 THEN "up" ELSE IF bits = 1 THEN "down" ELSE "none"

\* The peripheral, as a record:
\*   fsel: function-select register -> word (ten 3-bit fields)
\*   pud:  the pull control register
\*   clk:  bank -> pull clock register
\*   pull: pin -> latched pull state ("none", "up", "down")
\*   out:  bank -> output latches, one bit per pin
\* Effect of writing val to the register at byte offset addr.  A pin latches
\* the pull control bits when its bit of the clock register goes from 0 to
\* 1; writes to the set / clear registers raise / lower the output latches
\* whose bit is 1.
GpioWrite(g, addr, val) ==
    IF addr \in {GPIO_FSEL_OFFSET + 4 * r : r \in FselRegs}
    THEN [g EXCEPT !.fsel[(addr - GPIO_FSEL_OFFSET) \div 4] = val]
    ELSE IF addr \in {GPIO_SET_OFFSET + 4 * b : b \in Banks}
    THEN [g EXCEPT !.out[(addr - GPIO_SET_OFFSET) \div 4] = OrW(@, val)]
    ELSE IF addr \in {GPIO_CLEAR_OFFSET + 4 * b : b \in Banks}
    THEN [g EXCEPT !.out[(addr - GPIO_CLEAR_OFFSET) \div 4] = AndNotW(@, val)]
    ELSE IF addr = GPIO_PULLUPDN_OFFSET
    THEN [g EXCEPT !.pud = val]
    ELSE IF addr \in {GPIO_PULLUPDNCLK_OFFSET + 4 * b : b \in Banks}
    THEN LET b == (addr - GPIO_PULLUPDNCLK_OFFSET) \div 4
         IN  [g EXCEPT
                !.clk[b] = val,
                !.pull = [p \in GpioPins |->
                            IF p \div 32 = b /\ BitAt(val, p % 32) = 1
                               /\ BitAt(g.clk[b], p % 32) = 0
                            THEN PullOf(g.pud % 4) ELSE g.pull[p]]]
    ELSE g

\* The levels pin p can show with nothing connected to it: an output pin
\* shows its output latch, an input pin its pull, a floating pin either.
PinLevels(g, p) ==
    LET f == Field(g.fsel[p \div 10], p % 10)
    IN  IF f = 1 THEN {BitAt(g.out[p \div 32], p % 32)}
        ELSE IF f = 0 /\ g.pull[p] = "up" THEN {1}
        ELSE IF f = 0 /\ g.pull[p] = "down" THEN {0}
        ELSE {0, 1}

\* The words a read of the level register of bank b can return.
LevelWords(g, b) ==
    LET ps == {p \in GpioPins : p \div 32 = b}
        Word(lv) == LET RECURSIVE Sum(_)
                        Sum(S) == IF S = {} THEN 0
                                  ELSE LET p == CHOOSE q \in S : TRUE
                                       IN  Shl(lv[p], p % 32) + Sum(S \ {p})
                    IN  Sum(ps)
    IN  {Word(lv) : lv \in {f \in [ps -> {0, 1}] :
                               \A p \in ps : f[p] \in PinLevels(g, p)}}

\* The value a read of a stored register at byte offset addr returns.
GpioRead(g, addr) ==
    IF addr \in {GPIO_FSEL_OFFSET + 4 * r : r \in FselRegs}
    THEN g.fsel[(addr - GPIO_FSEL_OFFSET) \div 4]
    ELSE IF addr = GPIO_PULLUPDN_OFFSET THEN g.pud
    ELSE 0

\* A function-select word whose ten fields all hold a function (1..7).
BusyFsel ==
    LET RECURSIVE Sum(_)
        Sum(f) == IF f > 9 THEN 0 ELSE ((f % 7) + 1) * (8 ^ f) + Sum(f + 1)
    IN  Sum(0)

\* The peripheral when a GPIO object is made: function-select words fs and
\* pull state pl on every pin (left by reset or by an earlier program), no
\* call made yet.
PowerOn(fs, pl) ==
    [fsel |-> [r \in FselRegs |-> fs],
     pud |-> 0,
     clk |-> [b \in Banks |-> 0],
     pull |-> [p \in GpioPins |-> pl],
     out |-> [b \in Banks |-> 0],
     op |-> [name |-> "new", pin |-> 0, mode |-> 0, ret |-> 0],
     acc |-> <<>>,
     calls |-> 0]

\* ------------------------------------------------------------- the state
Op(name, err, loop) ==
    [name |-> name, err |-> err, loop |-> loop,
     wasActive |-> is_active, pure |-> onlyAdds]

\* The engine and its channel after DMAGPIO.__init__.
DmaInit ==
    /\ mem = [i \in BlockIdx |-> NoBlock]
    /\ cur = 0
    /\ released = FALSE
    /\ dmaCS = {}
    /\ conblk = 0
    /\ pwmOn = FALSE
    /\ pwmRng = 0
    /\ clkDiv = 0
    /\ level = 0
    /\ hwLog = <<>>
    /\ laps = 0
    /\ fault = FALSE
    /\ lastOp = [name |-> "init", err |-> "ok", loop |-> FALSE,
                 wasActive |-> FALSE, pure |-> TRUE]
    /\ regw = <<>>
    /\ bufw = <<>>
    /\ reqs = <<>>
    /\ everCleared = FALSE
    /\ onlyAdds = TRUE
    /\ mutated = FALSE
    /\ nCalls = 0

Init ==
    /\ DmaInit
    /\ gpio = PowerOn(0, "none")

\* A call can be issued: the object is alive and the call budget is not spent.
CanCall == ~released /\ nCalls < MaxCalls

\* Blocks [off, off + n*CB) overwritten while the running chain can reach them.
Overwrites(off, n) ==
    is_active /\ \E i \in Reachable(mem) : i >= off \div CB /\ i < off \div CB + n

\* ------------------------------------------------------------- add_pulse
\* Mutant: the capacity check of add_pulse is off by one block.
PulseTooBig_OffByOne(next_cb) == next_cb > Size + CB
\* The capacity check of add_pulse: next_cb > self._physmem.get_size().
PulseTooBig(next_cb) == next_cb > Size

\* Mutant: the third block of a pulse carries the payload of the first, so
\* the masked pins are set again instead of cleared.
PulseData_NoFall(pins_mask, length_us, next_cb) ==
    LET next3 == next_cb + BusBase
        next2 == next3 - CB
        next1 == next2 - CB
    IN  << Block(pulse_info, next1 - 8, pulse_destination, pulse_length,
                 pulse_stride, next1, pins_mask, 0),
           Block(delay_info, 0, delay_destination, LEN_PER_US * length_us,
                 delay_stride, next2, 0, 0),
           Block(pulse_info, next3 - 8, pulse_destination, pulse_length,
                 pulse_stride, next3, pins_mask, 0) >>
\* Mutant: the source of the first block points at its last word only, so
\* the two payload rows start one word late.
PulseData_LateSource(pins_mask, length_us, next_cb) ==
    LET next3 == next_cb + BusBase
        next2 == next3 - CB
        next1 == next2 - CB
    IN  << Block(pulse_info, next1 - 4, pulse_destination, pulse_length,
                 pulse_stride, next1, pins_mask, 0),
           Block(delay_info, 0, delay_destination, LEN_PER_US * length_us,
                 delay_stride, next2, 0, 0),
           Block(pulse_info, next3 - 8, pulse_destination, pulse_length,
                 pulse_stride, next3, 0, pins_mask) >>
\* The three control blocks add_pulse writes at the cursor.
PulseData(pins_mask, length_us, next_cb) ==
    LET next3 == next_cb + BusBase
        next2 == next3 - CB
        next1 == next2 - CB
        source1 == next1 - 8
        length2 == LEN_PER_US * length_us
        source3 == next3 - 8
    IN  << Block(pulse_info, source1, pulse_destination, pulse_length,
                 pulse_stride, next1, pins_mask, 0),
           Block(delay_info, 0, delay_destination, length2,
                 delay_stride, next2, 0, 0),
           Block(pulse_info, source3, pulse_destination, pulse_length,
                 pulse_stride, next3, 0, pins_mask) >>

add_pulse(pins_mask, length_us) ==
    LET next_cb == cur + 3 * CB
    IN  /\ CanCall
        /\ nCalls' = nCalls + 1
        /\ UNCHANGED gpio
        /\ regw' = <<>>
        /\ UNCHANGED <<released, hwVars, everCleared>>
        /\ IF PulseTooBig(next_cb)
           THEN /\ lastOp' = Op("add_pulse", "MemoryError", FALSE)
                /\ bufw' = <<>>
                /\ UNCHANGED <<mem, cur, reqs, onlyAdds, mutated>>
           ELSE /\ mem' = WriteBlocks(mem, cur,
                                      PulseData(pins_mask, length_us, next_cb))
                /\ cur' = next_cb
                /\ lastOp' = Op("add_pulse", "ok", FALSE)
                /\ bufw' = << <<cur, 3 * CB>> >>
                /\ reqs' = Append(reqs, Ev("pulse", pins_mask, length_us))
                /\ mutated' = (mutated \/ Overwrites(cur, 3))
                /\ UNCHANGED onlyAdds

\* ------------------------------------------------------------- add_delay
\* Mutant: the capacity check of add_delay is off by one block.
DelayTooBig_OffByOne(next_cb) == next_cb > Size + CB
\* The capacity check of add_delay.
DelayTooBig(next_cb) == next_cb > Size

\* Mutant: the transfer length of the delay block is the bare microsecond
\* count, without the bytes-per-microsecond scale.
DelayData_Unscaled(delay_us, next_cb) ==
    LET next == BusBase + next_cb
    IN  << Block(delay_info, next - 8, delay_destination, delay_us,
                 delay_stride, next, 0, 0) >>
\* The control block add_delay writes at the cursor.
DelayData(delay_us, next_cb) ==
    LET next == BusBase + next_cb
        source == next - 8
        length == LEN_PER_US * delay_us
    IN  << Block(delay_info, source, delay_destination, length,
                 delay_stride, next, 0, 0) >>

add_delay(delay_us) ==
    LET next_cb == cur + CB
    IN  /\ CanCall
        /\ nCalls' = nCalls + 1
        /\ UNCHANGED gpio
        /\ regw' = <<>>
        /\ UNCHANGED <<released, hwVars, everCleared>>
        /\ IF DelayTooBig(next_cb)
           THEN /\ lastOp' = Op("add_delay", "MemoryError", FALSE)
                /\ bufw' = <<>>
                /\ UNCHANGED <<mem, cur, reqs, onlyAdds, mutated>>
           ELSE /\ mem' = WriteBlocks(mem, cur, DelayData(delay_us, next_cb))
                /\ cur' = next_cb
                /\ lastOp' = Op("add_delay", "ok", FALSE)
                /\ bufw' = << <<cur, CB>> >>
                /\ reqs' = Append(reqs, Ev("delay", 0, delay_us))
                /\ mutated' = (mutated \/ Overwrites(cur, 1))
                /\ UNCHANGED onlyAdds

\* ------------------------------------------------------- finalize_stream
\* Mutant: the 'next' word of the block AT the cursor, not of the one before.
LastNextOff_AtCursor(c) == c + NEXT_OFF
\* Byte offset of the 'next' word of the block before the cursor.
LastNextOff(c) == c + NEXT_OFF - CB

\* write_int at `off`: inside the buffer it stores the word.  Below the
\* buffer start (cursor 0) the outcome is the memory map's: the access is
\* refused ("IndexError", nothing written) or the negative offset is taken
\* from the end of the buffer.  The set of possible [mem, err] outcomes.
WriteIntOutcomes(m, off, v) ==
    IF off >= 0 THEN {[mem |-> WriteNext(m, off, v), err |-> "ok"]}
    ELSE {[mem |-> m, err |-> "IndexError"],
          [mem |-> WriteNext(m, Size + off, v), err |-> "ok"]}

\* What finalize_stream stores in the 'next' word: 0, the end of the chain.
FinalNext == 0

finalize_stream ==
    /\ CanCall
    /\ nCalls' = nCalls + 1
    /\ UNCHANGED gpio
    /\ regw' = <<>>
    /\ \E o \in WriteIntOutcomes(mem, LastNextOff(cur), FinalNext) :
          /\ mem' = o.mem
          /\ lastOp' = Op("finalize_stream", o.err, FALSE)
    /\ bufw' = << <<LastNextOff(cur), 4>> >>
    /\ onlyAdds' = FALSE
    /\ UNCHANGED <<cur, released, hwVars, reqs, everCleared, mutated>>

\* ------------------------------------------------------------ run_stream
\* The hardware after run_stream's register accesses; the chain starts anew.
StartHw(h) ==
    /\ dmaCS' = h.cs
    /\ conblk' = h.conblk
    /\ pwmOn' = h.pwmOn
    /\ pwmRng' = h.rng
    /\ clkDiv' = h.div
    /\ hwLog' = <<>>
    /\ laps' = 0
    /\ UNCHANGED <<level, fault>>

run_stream ==
    /\ CanCall
    /\ nCalls' = nCalls + 1
    /\ UNCHANGED gpio
    /\ regw' = RunStreamWrites(dmaCS)
    /\ bufw' = <<>>
    /\ \E h \in ApplyAll({HwRegs}, RunStreamWrites(dmaCS)) : StartHw(h)
    /\ lastOp' = Op("run_stream", "ok", FALSE)
    /\ onlyAdds' = FALSE
    /\ mutated' = FALSE
    /\ UNCHANGED <<mem, cur, released, reqs, everCleared>>

\* ------------------------------------------------------------------- run
\* Mutant: the emptiness guard of run() never fires.
NothingAdded_Never == cur < 0
\* The guard of run(): nothing was added.
NothingAdded == cur = 0

\* The 'next' word run(loop) stores in the last block.
RunNext(loop) == IF loop THEN BusBase ELSE FinalNext

run(loop) ==
    /\ CanCall
    /\ nCalls' = nCalls + 1
    /\ UNCHANGED gpio
    /\ IF NothingAdded
       THEN /\ lastOp' = Op("run", "RuntimeError", loop)
            /\ regw' = <<>>
            /\ bufw' = <<>>
            /\ UNCHANGED <<mem, cur, released, hwVars, reqs, everCleared,
                           onlyAdds, mutated>>
       ELSE /\ mem' = WriteNext(mem, LastNextOff(cur), RunNext(loop))
            /\ bufw' = << <<LastNextOff(cur), 4>> >>
            /\ regw' = RunStreamWrites(dmaCS)
            /\ \E h \in ApplyAll({HwRegs}, RunStreamWrites(dmaCS)) : StartHw(h)
            /\ lastOp' = Op("run", "ok", loop)
            /\ onlyAdds' = FALSE
            /\ mutated' = FALSE
            /\ UNCHANGED <<cur, released, reqs, everCleared>>

\* ------------------------------------------------------------------ stop
stop ==
    /\ CanCall
    /\ nCalls' = nCalls + 1
    /\ UNCHANGED gpio
    /\ regw' = StopWrites(dmaCS)
    /\ bufw' = <<>>
    /\ \E h \in ApplyAll({HwRegs}, StopWrites(dmaCS)) :
          /\ dmaCS' = h.cs
          /\ conblk' = h.conblk
          /\ pwmOn' = h.pwmOn
          /\ pwmRng' = h.rng
          /\ clkDiv' = h.div
    /\ lastOp' = Op("stop", "ok", FALSE)
    /\ onlyAdds' = FALSE
    /\ UNCHANGED <<mem, cur, released, level, hwLog, laps, fault, reqs,
                   everCleared, mutated>>

\* ----------------------------------------------------------------- clear
\* Mutant: clear() leaves the cursor one block into the buffer.
ClearedCursor_OneBlock == CB
\* The cursor after clear().
ClearedCursor == 0

clear ==
    /\ CanCall
    /\ nCalls' = nCalls + 1
    /\ UNCHANGED gpio
    /\ cur' = ClearedCursor
    /\ regw' = <<>>
    /\ bufw' = <<>>
    /\ lastOp' = Op("clear", "ok", FALSE)
    /\ reqs' = <<>>
    /\ everCleared' = TRUE
    /\ onlyAdds' = TRUE
    /\ UNCHANGED <<mem, released, hwVars, mutated>>

\* ------------------------------------------------------- object lifetime
\* The DMAGPIO object is dropped: DMAGPIO defines no finalizer, so nothing
\* stops the channel; the buffer object it owns is released with it.
StopsOnDrop == FALSE

drop ==
    /\ ~released
    /\ nCalls < MaxCalls
    /\ nCalls' = nCalls + 1
    /\ UNCHANGED gpio
    /\ released' = TRUE
    /\ regw' = IF StopsOnDrop THEN StopWrites(dmaCS) ELSE <<>>
    /\ bufw' = <<>>
    /\ IF StopsOnDrop
       THEN \E h \in ApplyAll({HwRegs}, StopWrites(dmaCS)) :
               /\ dmaCS' = h.cs
               /\ conblk' = h.conblk
               /\ pwmOn' = h.pwmOn
               /\ pwmRng' = h.rng
               /\ clkDiv' = h.div
       ELSE UNCHANGED <<dmaCS, conblk, pwmOn, pwmRng, clkDiv>>
    /\ lastOp' = Op("del", "ok", FALSE)
    /\ UNCHANGED <<mem, cur, level, hwLog, laps, fault, reqs, everCleared,
                   onlyAdds, mutated>>

\* ------------------------------------------------------- the DMA channel
\* The channel is active and holds the address of a block the program wrote
\* in a buffer that is still mapped.
AtBlock == is_active /\ ~released /\ IdxOf(conblk) # -1
           /\ mem[IdxOf(conblk)] # NoBlock

\* The channel executes the control block at CONBLK_AD and loads the next;
\* a 'next' of 0 ends the transfer (ACTIVE clears, END sets).  A delay block
\* is paced by the PWM and waits while the PWM is off.
HwExec ==
    /\ AtBlock
    /\ LET i == IdxOf(conblk)
           blk == mem[i]
           ev == BlockEvent(mem, blk, pwmRng)
       IN  /\ ("DEST_DREQ" \in blk.info) => pwmOn
           /\ level' = LevelAfter(level, ev)
           /\ conblk' = blk.next
           /\ dmaCS' = IF blk.next = 0
                       THEN (dmaCS \ {"ACTIVE"}) \cup {"END"} ELSE dmaCS
           /\ IF i = 0 /\ hwLog # <<>>
              THEN /\ hwLog' = <<ev>>
                   /\ laps' = Min(laps + 1, MaxLaps)
              ELSE /\ hwLog' = Append(hwLog, ev)
                   /\ UNCHANGED laps
    /\ UNCHANGED <<mem, cur, released, pwmOn, pwmRng, clkDiv, fault, lastOp,
                   regw, bufw, reqs, everCleared, onlyAdds, mutated, nCalls,
                   gpio>>

\* The channel is active at an address that holds no block the program wrote
\* (unwritten or released memory, or outside the buffer): what it executes is
\* not determined; it may go on or end.
HwWild ==
    /\ is_active
    /\ ~AtBlock
    /\ fault' = TRUE
    /\ \E stays \in BOOLEAN :
          dmaCS' = IF stays THEN dmaCS ELSE dmaCS \ {"ACTIVE"}
    /\ UNCHANGED <<mem, cur, released, conblk, pwmOn, pwmRng, clkDiv, level,
                   hwLog, laps, lastOp, regw, bufw, reqs, everCleared,
                   onlyAdds, mutated, nCalls, gpio>>

Next ==
    \/ \E a \in PulseArgs : add_pulse(a[1], a[2])
    \/ \E l \in Lengths : add_delay(l)
    \/ \E loop \in BOOLEAN : run(loop)
    \/ finalize_stream
    \/ run_stream
    \/ stop
    \/ clear
    \/ drop
    \/ HwExec
    \/ HwWild

Spec == Init /\ [][Next]_vars

\* The first calls on a new engine only (FreshCalls of them), with the
\* hardware running on its own: an enabled channel step is eventually taken.
FreshCalls == 3
NextFresh == Next /\ nCalls' <= FreshCalls
FreshFairSpec == Init /\ [][NextFresh]_vars /\ WF_vars(HwExec)

\* ---------------------------------------------------------- class GPIO
GpioCanCall == gpio.calls < MaxGpioCalls

\* The state after a GPIO call: g with the call and its accesses recorded.
GpioDone(g, name, pin, mode, ret, acc) ==
    [g EXCEPT !.op = [name |-> name, pin |-> pin, mode |-> mode, ret |-> ret],
              !.acc = acc,
              !.calls = gpio.calls + 1]

\* Mutant: the control bits of pull-up and pull-down are exchanged.
PullBits_Swapped(mode) ==
    IF mode = MODE_INPUT_PULLUP THEN 1
    ELSE IF mode = MODE_INPUT_PULLDOWN THEN 2 ELSE 0
\* The control bits _pullupdn ors into the pull control word.
PullBits(mode) ==
    IF mode = MODE_INPUT_PULLUP THEN 2
    ELSE IF mode = MODE_INPUT_PULLDOWN THEN 1 ELSE 0

\* Mutant: every call addresses the registers of bank 0.
BankAddr_Bank0(pin, offset) == offset
\* The register of the bank of a pin: 4 * int(pin / 32) + offset.
BankAddr(pin, offset) == 4 * (pin \div 32) + offset

\* GPIO._pullupdn(pin, mode): the peripheral after it, and its accesses.
GPIO_pullupdn(g, pin, mode) ==
    LET p0 == GpioRead(g, GPIO_PULLUPDN_OFFSET)
        p1 == OrW(AndNotW(p0, 3), PullBits(mode))
        g1 == GpioWrite(g, GPIO_PULLUPDN_OFFSET, p1)
        addr == BankAddr(pin, GPIO_PULLUPDNCLK_OFFSET)
        g2 == GpioWrite(g1, addr, Shl(1, pin % 32))
        p2 == GpioRead(g2, GPIO_PULLUPDN_OFFSET)
        p3 == AndNotW(p2, 3)
        g3 == GpioWrite(g2, GPIO_PULLUPDN_OFFSET, p3)
        g4 == GpioWrite(g3, addr, 0)
    IN  [g |-> g4,
         acc |-> << GR(GPIO_PULLUPDN_OFFSET, p0),
                    GW(GPIO_PULLUPDN_OFFSET, p1),
                    GW(addr, Shl(1, pin % 32)),
                    GR(GPIO_PULLUPDN_OFFSET, p2),
                    GW(GPIO_PULLUPDN_OFFSET, p3),
                    GW(addr, 0) >>]

\* Mutant: only the lowest bit of the pin's field is cleared.
FselCleared_OneBit(v, pin) == AndNotW(v, Shl(1, (pin % 10) * 3))
\* v &= ~(7 << ((pin % 10) * 3))
FselCleared(v, pin) == AndNotW(v, Shl(7, (pin % 10) * 3))

\* GPIO.init(pin, mode)
GPIO_init(pin, mode) ==
    LET addr == 4 * (pin \div 10) + GPIO_FSEL_OFFSET
        v0 == GpioRead(gpio, addr)
        v == FselCleared(v0, pin)
        vOut == OrW(v, Shl(1, (pin % 10) * 3))
        gIn == GpioWrite(gpio, addr, v)
        pud == GPIO_pullupdn(gIn, pin, mode)
    IN  /\ GpioCanCall
        /\ gpio' = IF mode = MODE_OUTPUT
                   THEN GpioDone(GpioWrite(gpio, addr, vOut), "init", pin,
                                 mode, 0, << GR(addr, v0), GW(addr, vOut) >>)
                   ELSE GpioDone(pud.g, "init", pin, mode, 0,
                                 << GR(addr, v0), GW(addr, v) >> \o pud.acc)
        /\ UNCHANGED dmaVars

\* GPIO.set(pin)
GPIO_set(pin) ==
    LET addr == BankAddr(pin, GPIO_SET_OFFSET)
        word == Shl(1, pin % 32)
    IN  /\ GpioCanCall
        /\ gpio' = GpioDone(GpioWrite(gpio, addr, word), "set", pin, 0, 0,
                            << GW(addr, word) >>)
        /\ UNCHANGED dmaVars

\* GPIO.clear(pin)
GPIO_clear(pin) ==
    LET addr == BankAddr(pin, GPIO_CLEAR_OFFSET)
        word == Shl(1, pin % 32)
    IN  /\ GpioCanCall
        /\ gpio' = GpioDone(GpioWrite(gpio, addr, word), "clear", pin, 0, 0,
                            << GW(addr, word) >>)
        /\ UNCHANGED dmaVars

\* The values GPIO.read(pin) can return on peripheral g.
ReadResults(g, pin) ==
    {IF AndW(w, Shl(1, pin % 32)) = 0 THEN 0 ELSE 1 :
        w \in LevelWords(g, pin \div 32)}

\* GPIO.read(pin)
GPIO_read(pin) ==
    LET addr == BankAddr(pin, GPIO_INPUT_OFFSET)
    IN  /\ GpioCanCall
        /\ \E w \in LevelWords(gpio, (addr - GPIO_INPUT_OFFSET) \div 4) :
              LET v == AndW(w, Shl(1, pin % 32))
              IN  gpio' = GpioDone(gpio, "read", pin, 0,
                                   IF v = 0 THEN 0 ELSE 1, << GR(addr, w) >>)
        /\ UNCHANGED dmaVars

\* A GPIO object on a peripheral in one of the states reset or an earlier
\* program can have left: function-select fields all input or all in use,
\* the pins' pulls off, up or down.
GpioInit ==
    /\ DmaInit
    /\ \E fs \in {0, BusyFsel}, pl \in {"none", "up", "down"} :
          gpio = PowerOn(fs, pl)

GpioNext ==
    \/ \E pin \in GpioPins, mode \in Modes : GPIO_init(pin, mode)
    \/ \E pin \in GpioPins : GPIO_set(pin)
    \/ \E pin \in GpioPins : GPIO_clear(pin)
    \/ \E pin \in GpioPins : GPIO_read(pin)

GpioSpec == GpioInit /\ [][GpioNext]_vars




\* ================================================================ claims
\* The step is an API call named `name`.
Called(name) == nCalls' = nCalls + 1 /\ lastOp'.name = name

\* C2: run() called with nothing appended (cursor 0, on a new engine or after
\* clear()) fails with the state error (RuntimeError) and makes no register
\* access and no buffer write, for loop = False and loop = True alike.
C2_RunEmptyFails ==
    [][(Called("run") /\ cur = 0) =>
          /\ lastOp'.err = "RuntimeError"
          /\ regw' = <<>>
          /\ bufw' = <<>>
          /\ UNCHANGED <<mem, cur, dmaCS, conblk, pwmOn, pwmRng, clkDiv, level>>
      ]_vars
\* run(loop=True) has failed on an engine emptied by clear().
C2_Witness ==
    /\ lastOp.name = "run" /\ lastOp.err = "RuntimeError" /\ lastOp.loop
    /\ everCleared /\ cur = 0

\* Bytes an append needs.
Needs(name) == IF name = "add_pulse" THEN 3 * CB ELSE CB

\* C3: an add_pulse (96 bytes) or add_delay (32 bytes) that would move the
\* cursor past the capacity fails with the capacity error (MemoryError) and
\* leaves the cursor and every word of the buffer as they were, so the chain
\* a following run() would start is the one it would have started before.
C3_FailedAppendKeepsPrefix ==
    [][\A name \in {"add_pulse", "add_delay"} :
          (Called(name) /\ cur + Needs(name) > Size) =>
             /\ lastOp'.err = "MemoryError"
             /\ bufw' = <<>>
             /\ UNCHANGED <<mem, cur>>
      ]_vars
\* add_pulse has been refused on a buffer that holds appended blocks.
C3_Witness ==
    /\ lastOp.name = "add_pulse" /\ lastOp.err = "MemoryError"
    /\ cur > 0 /\ cur + 3 * CB > Size

\* Every 'next' met on the walk from the head is 0 or the bus address of a
\* written, 32-byte aligned block below the cursor c.
ChainSound(m, c) ==
    /\ Walk(m) # <<>>
    /\ \A i \in Reachable(m) :
          \/ m[i].next = 0
          \/ /\ IdxOf(m[i].next) # -1
             /\ IdxOf(m[i].next) * CB < c
             /\ m[IdxOf(m[i].next)] # NoBlock

\* C4: whenever run() has just returned successfully, the walk of the chain
\* from the head meets only 'next' fields that are 0 or the bus address of a
\* written block below the cursor.
C4_ChainNeverDangles ==
    (lastOp.name = "run" /\ lastOp.err = "ok") => ChainSound(mem, cur)
\* run(loop=True) has returned on a chain of at least two blocks.
C4_Witness ==
    /\ lastOp.name = "run" /\ lastOp.err = "ok" /\ lastOp.loop
    /\ cur >= 2 * CB

\* The cursor is a multiple of the block size inside [0, capacity].
CursorOK == cur % CB = 0 /\ 0 <= cur /\ cur <= Size

\* C7: in every reachable state the cursor is a multiple of 32 within
\* [0, capacity], and every step other than a clear() leaves it where it is
\* or moves it up.
C7_CursorBounded ==
    /\ []CursorOK
    /\ [][~Called("clear") => cur' >= cur]_vars
\* The cursor sits at the capacity and a further append has been refused.
C7_Witness ==
    cur = Size /\ lastOp.name = "add_delay" /\ lastOp.err = "MemoryError"


\* ------------------------------------------------------------------- C1
\* The engine is new and exactly add_pulse(m, L), run(loop=False) were called.
FreshPulseRun ==
    /\ nCalls = 2 /\ ~everCleared
    /\ lastOp.name = "run" /\ lastOp.err = "ok" /\ ~lastOp.loop
    /\ Len(reqs) = 1 /\ reqs[1].k = "pulse"

\* The kinds and words of the executed blocks, without the stall measured.
Edges(log) ==
    [k \in 1..Len(log) |->
        IF log[k].k = "delay" THEN Ev("delay", log[k].a, 0) ELSE log[k]]

\* What add_pulse(m, L) + run(False) must make the hardware do.
PulseEdges(m, L) ==
    << Ev("gpio", m, 0), Ev("delay", LEN_PER_US * L, 0), Ev("gpio", 0, m) >>

FreshPulseSafe ==
    LET m == reqs[1].a
        L == reqs[1].b
    IN  /\ IsPrefix(Edges(hwLog), PulseEdges(m, L))
        /\ laps = 0 /\ ~fault
        /\ level = (IF Len(hwLog) \in {1, 2} THEN m ELSE 0)
        /\ is_active <=> Len(hwLog) < 3

\* C1: on a new engine, add_pulse(m, L) then run(loop=False) makes the
\* hardware execute exactly: the masked pins raised (no other pin changes),
\* the delay block of L, the masked pins lowered; the channel is active until
\* then, eventually reports inactive, and stays inactive while no further call
\* is made.
C1_FreshPulse ==
    /\ [](FreshPulseRun => FreshPulseSafe)
    /\ (FreshPulseRun ~> (~FreshPulseRun \/ ~is_active))
    /\ [][(FreshPulseRun /\ ~is_active /\ FreshPulseRun') => ~is_active']_vars
\* The pulse on both pins has been executed to its end.
C1_Witness ==
    /\ FreshPulseRun /\ ~is_active /\ reqs[1].a = 3
    /\ Len(hwLog) = 3 /\ level = 0

\* ------------------------------------------------------------------- C5
\* run(loop=True) returned and no call was made since.
LoopRunning == lastOp.name = "run" /\ lastOp.err = "ok" /\ lastOp.loop

\* C5: after run(loop=True) on a non-empty chain the last appended block's
\* 'next' is the head's bus address, the walk from the head covers every
\* appended block, and is_active() stays True as long as no further call is
\* made; after stop() is_active() is False.
C5_LoopRunsUntilStop ==
    /\ LoopRunning =>
          /\ mem[cur \div CB - 1].next = BusBase
          /\ Len(Walk(mem)) = cur \div CB
          /\ is_active
    /\ lastOp.name = "stop" => ~is_active

\* ------------------------------------------------------------------- C6
\* The buffer of a new engine after the appends rs.
RECURSIVE FreshAppends(_, _, _)
FreshAppends(m, c, rs) ==
    IF rs = <<>> THEN [mem |-> m, cur |-> c]
    ELSE LET r == Head(rs)
         IN  IF r.k = "pulse"
             THEN FreshAppends(
                    WriteBlocks(m, c, PulseData(r.a, r.b, c + 3 * CB)),
                    c + 3 * CB, Tail(rs))
             ELSE FreshAppends(
                    WriteBlocks(m, c, DelayData(r.b, c + CB)),
                    c + CB, Tail(rs))

\* The buffer of a new engine after the appends rs and run(loop).
FreshImage(rs, loop) ==
    LET f == FreshAppends([i \in BlockIdx |-> NoBlock], 0, rs)
    IN  WriteNext(f.mem, LastNextOff(f.cur), RunNext(loop))

\* run(loop) returned after clear() and appends only, the hardware being
\* inactive when run() was called (so also when clear() was).
ReusedRun ==
    /\ lastOp.name = "run" /\ lastOp.err = "ok"
    /\ lastOp.pure /\ everCleared /\ ~lastOp.wasActive

\* C6: after clear(), appends S and run(loop) on an engine whose hardware
\* is inactive, the chain the hardware walks (its blocks' effects and the way
\* it ends) is the one of a new engine given S and run(loop); what the
\* channel executes is a prefix of it, and no block at or above the cursor is
\* reachable.
C6_ClearReuseAsNew ==
    ReusedRun =>
       LET fresh == FreshImage(reqs, lastOp.loop)
       IN  /\ ChainEvents(mem, pwmRng) = ChainEvents(fresh, pwmRng)
           /\ ChainEnd(mem) = ChainEnd(fresh)
           /\ Walk(mem) = Walk(fresh)
           /\ IsPrefix(hwLog, ChainEvents(fresh, pwmRng))
           /\ \A i \in Reachable(mem) : i * CB < cur
\* The reused engine has executed a block while blocks of the earlier
\* history, which included a run, lie above the cursor.
C6_Witness ==
    /\ ReusedRun /\ hwLog # <<>>
    /\ \E i \in BlockIdx : i * CB >= cur /\ mem[i] # NoBlock /\ mem[i].next = 0

\* ------------------------------------------------------------------- C8
\* C8: a clear() while the channel is active ends in a state error, and in no
\* reachable state is the channel active with a block, reachable from the
\* chain head, overwritten by the controlling thread since run() started it.
C8_ActiveMutationRefused ==
    /\ (lastOp.name = "clear" /\ lastOp.wasActive /\ Walk(mem) # <<>>)
          => lastOp.err = "StateError"
    /\ ~(is_active /\ mutated)

\* ------------------------------------------------------------------- C9
\* C9: the buffer is never released while the channel is active: no reachable
\* state has the buffer released and the channel active (here: active at a
\* block of the chain the program wrote, which it has still to execute).
C9_NoReleaseWhileActive ==
    ~(released /\ is_active /\ IdxOf(conblk) \in Reachable(mem))

\* ------------------------------------------------------------------ C10
\* Microseconds requested for each block of the chain built by the appends rs
\* (0 for a level-change block).
RECURSIVE RequestedUs(_)
RequestedUs(rs) ==
    IF rs = <<>> THEN <<>>
    ELSE (IF Head(rs).k = "pulse" THEN <<0, Head(rs).b, 0>> ELSE <<Head(rs).b>>)
         \o RequestedUs(Tail(rs))

\* A run of a chain built by appends only on a new engine.
FreshRun ==
    /\ lastOp.name = "run" /\ lastOp.err = "ok" /\ lastOp.pure
    /\ ~everCleared /\ ~lastOp.wasActive /\ laps = 0

\* C10: with the pacing clock at PLLD / CLK_DIV (10 MHz) and the PWM range as
\* programmed by run(), every executed delay block requested for L
\* microseconds stalls the chain for L microseconds:
\* ticks / (PLLD_MHZ / clkDiv) = L.
C10_DelayIsRequestedUs ==
    FreshRun =>
       \A k \in 1..Len(hwLog) :
          hwLog[k].k = "delay" =>
             hwLog[k].b * clkDiv = RequestedUs(reqs)[k] * PLLD_MHZ


\* ------------------------------------------------------------------- C13
\* The last request recorded.
LastReq(rs) == rs[Len(rs)]

\* True when the buffer image differs between m and n only in the blocks
\* with indexes in idxs.
OnlyBlocks(m, n, idxs) ==
    \A i \in DOMAIN m : i \notin idxs => n[i] = m[i]

\* C13: a successful add_pulse(pins_mask, length_us) at cursor c writes
\* exactly three 8-word blocks, at c, c+32 and c+64, and moves the cursor to
\* c+96.  With B the bus base: block 1 is a level-change block with source
\* B+c+24, payload [pins_mask, 0] and next B+c+32; block 2 is a delay block
\* with next B+c+64 and trailing words [0, 0]; block 3 is a level-change
\* block with source B+c+88, payload [0, pins_mask] and next B+c+96.  No
\* word outside [c, c+96) is written.
C13_PulseLayout ==
    [][ (Called("add_pulse") /\ lastOp'.err = "ok") =>
        LET c  == cur
            i  == c \div 32
            pm == LastReq(reqs').a
            b1 == mem'[i]
            b2 == mem'[i + 1]
            b3 == mem'[i + 2]
        IN  /\ cur' = c + 96
            /\ bufw' = << <<c, 96>> >>
            /\ OnlyBlocks(mem, mem', {i, i + 1, i + 2})
            /\ b1.info = pulse_info /\ b1.dst = pulse_destination
            /\ b1.len = pulse_length /\ b1.stride = pulse_stride
            /\ b1.src = BusBase + c + 24
            /\ <<b1.d0, b1.d1>> = <<pm, 0>>
            /\ b1.next = BusBase + c + 32
            /\ b2.info = delay_info /\ b2.dst = delay_destination
            /\ b2.next = BusBase + c + 64
            /\ <<b2.d0, b2.d1>> = <<0, 0>>
            /\ b3.info = pulse_info /\ b3.dst = pulse_destination
            /\ b3.len = pulse_length /\ b3.stride = pulse_stride
            /\ b3.src = BusBase + c + 88
            /\ <<b3.d0, b3.d1>> = <<0, pm>>
            /\ b3.next = BusBase + c + 96 ]_vars

\* A pulse was appended behind an earlier block.
C13_Witness ==
    /\ lastOp.name = "add_pulse" /\ lastOp.err = "ok"
    /\ cur = 4 * CB
    /\ mem[1].d0 = 3 /\ mem[3].d1 = 3

\* ------------------------------------------------------------------- C14
\* The delay block add_pulse(m, d) writes (its second block), for a pulse
\* appended at the same cursor.
PulseDelayBlock(m, d, c) == PulseData(m, d, c + 3 * CB)[2]

\* The fields C14 compares between two delay blocks.
SameDelay(b, p) ==
    /\ b.info = p.info /\ b.dst = p.dst
    /\ b.len = p.len /\ b.stride = p.stride

\* A successful add_delay(d) at cursor c writes one block at c, whose next
\* is the bus address of c+32, and moves the cursor to c+32; executing that
\* block changes no line level.
DelayAppended(c, d) ==
    LET i == c \div 32
        b == mem'[i]
    IN  /\ cur' = c + 32
        /\ bufw' = << <<c, 32>> >>
        /\ OnlyBlocks(mem, mem', {i})
        /\ b.next = BusBase + c + 32
        /\ <<b.d0, b.d1>> = <<0, 0>>
        /\ b.dst # PHYSICAL_GPIO_BUS + GPIO_SET_OFFSET
        /\ b.dst # PHYSICAL_GPIO_BUS + GPIO_CLEAR_OFFSET
        /\ \A lv \in 0..3 :
              LevelAfter(lv, BlockEvent(mem', b, PWM_RANGE)) = lv

\* C14 as stated: a successful add_delay(d) at cursor c writes exactly one
\* block at c and moves the cursor to c+32; the block is the same as the
\* delay block add_pulse(m, d) writes (same transfer-info, source,
\* destination, transfer length and stride), its next is the bus address of
\* c+32, and executing it changes no GPIO level.
C14_DelayAsInPulse ==
    [][ (Called("add_delay") /\ lastOp'.err = "ok") =>
        LET d == LastReq(reqs').b
            b == mem'[cur \div 32]
        IN  /\ DelayAppended(cur, d)
            /\ \A pa \in PulseArgs :
                  /\ SameDelay(b, PulseDelayBlock(pa[1], d, cur))
                  /\ b.src = PulseDelayBlock(pa[1], d, cur).src ]_vars

\* C14 amended: as above, but the block agrees with the delay block of
\* add_pulse(m, d) in transfer-info, destination, transfer length and
\* stride only; its source word is the bus address of c+24, where the delay
\* block of add_pulse has source 0 (the transfer-info tells the channel to
\* ignore the source).
C14_DelayLayout ==
    [][ (Called("add_delay") /\ lastOp'.err = "ok") =>
        LET d == LastReq(reqs').b
            b == mem'[cur \div 32]
        IN  /\ DelayAppended(cur, d)
            /\ \A pa \in PulseArgs :
                  /\ SameDelay(b, PulseDelayBlock(pa[1], d, cur))
                  /\ PulseDelayBlock(pa[1], d, cur).src = 0
            /\ b.src = BusBase + cur + 24
            /\ "SRC_IGNORE" \in b.info ]_vars

\* A delay was appended behind a pulse.
C14_Witness ==
    /\ lastOp.name = "add_delay" /\ lastOp.err = "ok"
    /\ cur = 4 * CB
    /\ mem[3].len = mem[1].len /\ mem[3].src # mem[1].src

\* ------------------------------------------------------------------- C15
\* A successful call that programs the channel: run() or run_stream().
Programs == (Called("run") \/ Called("run_stream")) /\ lastOp'.err = "ok"

\* A pattern of one register access: operation, register, flags it must
\* carry, flags it must not carry.
Pat(op, reg, has, lacks) ==
    [op |-> op, reg |-> reg, has |-> has, lacks |-> lacks]
Fits(w, p) ==
    /\ w.op = p.op /\ w.reg = p.reg
    /\ p.has \subseteq w.flags /\ p.lacks \cap w.flags = {}

\* The accesses ws contain accesses fitting the patterns ps, in that order.
RECURSIVE InOrder(_, _)
InOrder(ws, ps) ==
    IF ps = <<>> THEN TRUE
    ELSE IF ws = <<>> THEN FALSE
    ELSE IF Fits(Head(ws), Head(ps)) THEN InOrder(Tail(ws), Tail(ps))
    ELSE InOrder(Tail(ws), ps)

\* The order of hardware accesses C15 states.
StartOrder ==
    << Pat("w", "PWM_CTL", {}, {"PWEN1"}),
       Pat("w", "CM_CNTL", {}, {"ENABLE"}),
       Pat("r", "CM_CNTL", {}, {"BUSY"}),
       Pat("w", "CM_DIV", {}, {}),
       Pat("w", "CM_CNTL", {"ENABLE"}, {}),
       Pat("w", "PWM_RNG1", {}, {}),
       Pat("w", "PWM_DMAC", {"ENAB"}, {}),
       Pat("w", "PWM_CTL", {"PWEN1"}, {}),
       Pat("w", "DMA_CONBLK_AD", {}, {}),
       Pat("w", "DMA_CS", {}, {"ACTIVE"}),
       Pat("w", "DMA_CS", {"ACTIVE"}, {}) >>

\* The possible register states just before access k of ws, starting from
\* the registers h0.
Before(h0, ws, k) == ApplyAll({h0}, SubSeq(ws, 1, k - 1))

\* C15: within one run()/run_stream() call the hardware writes happen in
\* this order: pacing peripheral disabled; clock source disabled; divisor
\* written only after the clock was read as not busy; clock re-enabled;
\* range and FIFO/DMA threshold configured and the pacing peripheral
\* enabled; DMA block-address register set to the head's bus address;
\* control bits written without the active bit; and the write that sets the
\* active bit is the last register write.  The active bit is never set
\* while the block-address register holds anything other than the head's
\* bus address or while the pacing peripheral is disabled.
C15_StartOrder ==
    [][ Programs =>
        LET ws == regw'
            n  == Len(ws)
        IN  /\ InOrder(ws, StartOrder)
            /\ \A k \in 1..n :
                  (ws[k].op = "w" /\ ws[k].reg = "CM_DIV") =>
                     \E j \in 1..(k - 1) : Fits(ws[j], StartOrder[3])
            /\ \A k \in 1..n :
                  (ws[k].op = "w" /\ ws[k].reg = "DMA_CONBLK_AD") =>
                     ws[k].num = BusBase
            /\ Fits(ws[n], StartOrder[11])
            /\ \A k \in 1..n :
                  (ws[k].op = "w" /\ ws[k].reg = "DMA_CS"
                   /\ "ACTIVE" \in ws[k].flags) =>
                     \A h \in Before(HwRegs, ws, k) :
                        h.conblk = BusBase /\ h.pwmOn ]_vars

\* ------------------------------------------------------------------- C16
\* C16: run() aborts any prior DMA activity before reprogramming the
\* channel: if run()/run_stream() is called while the channel is still
\* active, the channel is not active at the moment its block-address
\* register is rewritten, and the earlier chain executes no further block
\* after that point (the channel continues from the head only).
C16_AbortsBeforeReprogram ==
    [][ (Programs /\ is_active) =>
        LET ws == regw'
        IN  /\ \A k \in 1..Len(ws) :
                  (ws[k].op = "w" /\ ws[k].reg = "DMA_CONBLK_AD") =>
                     \A h \in Before(HwRegs, ws, k) : "ACTIVE" \notin h.cs
            /\ \E k \in 1..Len(ws) :
                  /\ ws[k].op = "w" /\ ws[k].reg = "DMA_CS"
                  /\ ws[k].flags \cap {"ABORT", "RESET"} # {}
            /\ conblk' = BusBase ]_vars

\* ------------------------------------------------------------------- C17
\* The accesses of ws to register reg with operation op.
Accesses(ws, op, reg) ==
    SelectSeq(ws, LAMBDA w : w.op = op /\ w.reg = reg)

\* C17: stop(), called in any state, sets the channel's abort bit, clears
\* its active bit, sets its reset bit and disables the pacing peripheral,
\* and returns without polling the channel status for quiescence; it
\* changes neither the cursor nor the buffer contents, so the chain built
\* so far can be run again.
C17_StopFrame ==
    [][ Called("stop") =>
        LET ws  == regw'
            cs  == Accesses(ws, "w", "DMA_CS")
            pwm == Accesses(ws, "w", "PWM_CTL")
        IN  /\ lastOp'.err = "ok"
            /\ \E k \in 1..Len(cs) : "ABORT" \in cs[k].flags
            /\ \E k \in 1..Len(cs) :
                  /\ "ACTIVE" \notin cs[k].flags
                  /\ \A j \in k..Len(cs) : "ACTIVE" \notin cs[j].flags
            /\ "RESET" \in cs[Len(cs)].flags
            /\ Len(pwm) = 1 /\ "PWEN1" \notin pwm[1].flags
            /\ Len(Accesses(ws, "r", "DMA_CS")) <= 1
            /\ ~is_active' /\ ~pwmOn'
            /\ mem' = mem /\ cur' = cur /\ bufw' = <<>>
            /\ released' = released ]_vars

\* stop() was called on a running chain.
C17_Witness ==
    /\ lastOp.name = "stop" /\ lastOp.wasActive
    /\ cur > 0 /\ Walk(mem) # <<>>
    /\ ~is_active

\* ------------------------------------------------------------------- C19
\* C19: every buffer write performed by any public DMAGPIO operation
\* targets offsets inside [0, capacity); in particular finalize_stream()
\* writes the 'next' word of an existing block (offset cursor-12 >= 20) and
\* never an offset before the start of the buffer, also when it is called
\* on an empty chain (cursor 0).
C19_WritesInsideBuffer ==
    /\ \A k \in 1..Len(bufw) :
          bufw[k][1] >= 0 /\ bufw[k][1] + bufw[k][2] <= Size
    /\ (lastOp.name = "finalize_stream" /\ lastOp.err = "ok") =>
          /\ Len(bufw) = 1
          /\ bufw[1][1] = cur - 12 /\ bufw[1][1] >= 20
          /\ mem[bufw[1][1] \div CB] # NoBlock

\* ------------------------------------------------------------------- C20
\* The indexes of the blocks appended since construction or the last
\* clear(), in append order.
Appended(c) == [k \in 1..(c \div CB) |-> k - 1]

\* C20: after a successful run(loop=False) the hardware executes every
\* block appended since construction or the last clear(), each exactly once
\* and in append order, and then halts; this holds for every call history,
\* including ones where finalize_stream() or run() was already called
\* earlier and more blocks were appended afterwards without a clear().
C20_RunOnceExecutesAll ==
    (lastOp.name = "run" /\ lastOp.err = "ok" /\ ~lastOp.loop
     /\ ~lastOp.wasActive) =>
        /\ Walk(mem) = Appended(cur)
        /\ ChainEnd(mem) = "halt"
        /\ (~is_active /\ ~fault) => Len(hwLog) = Len(Appended(cur))

\* ------------------------------------------------------------------- C11
\* A GPIO call was made.
GCalled(name) == gpio'.calls = gpio.calls + 1 /\ gpio'.op.name = name

\* The writes among the accesses acc.
GWrites(acc) == SelectSeq(acc, LAMBDA a : a.op = "w")

\* The pull state an input mode asks for.
Requested(mode) ==
    IF mode = MODE_INPUT_PULLUP THEN "up"
    ELSE IF mode = MODE_INPUT_PULLDOWN THEN "down" ELSE "none"

PullRegs ==
    {GPIO_PULLUPDN_OFFSET} \cup {GPIO_PULLUPDNCLK_OFFSET + 4 * b : b \in Banks}

OutLevel(g, p) == BitAt(g.out[p \div 32], p % 32)

\* set(pin) / clear(pin) made one write, of the word with only bit
\* (pin mod 32) set, to register `offset` of bank (pin div 32); the output
\* level of the pin is lv and that of every other pin is unchanged; read on
\* an output pin returns lv.
OneLevelWrite(offset, lv) ==
    LET pin == gpio'.op.pin
    IN  /\ gpio'.acc = << GW(offset + 4 * (pin \div 32), 2 ^ (pin % 32)) >>
        /\ OutLevel(gpio', pin) = lv
        /\ \A b \in Banks \ {pin \div 32} : gpio'.out[b] = gpio.out[b]
        /\ \A q \in GpioPins \ {pin} : OutLevel(gpio', q) = OutLevel(gpio, q)
        /\ AndNotW(gpio'.out[pin \div 32], 2 ^ (pin % 32))
              = AndNotW(gpio.out[pin \div 32], 2 ^ (pin % 32))
        /\ gpio'.fsel = gpio.fsel /\ gpio'.pull = gpio.pull
        /\ gpio'.pud = gpio.pud /\ gpio'.clk = gpio.clk
        /\ (Field(gpio.fsel[pin \div 10], pin % 10) = 1) =>
              ReadResults(gpio', pin) = {lv}

\* C12: GPIO.set(pin) performs exactly one write, of the word whose only 1
\* bit is bit (pin mod 32), to the output-set register of bank (pin div 32);
\* GPIO.clear(pin) does the same on the output-clear register.  As a result
\* the level of that pin becomes high (respectively low), the level of
\* every other pin is unchanged, and read(pin) on an output pin returns 1
\* after set(pin) and 0 after clear(pin).
C12_SetClear ==
    [][ /\ GCalled("set") => OneLevelWrite(GPIO_SET_OFFSET, 1)
        /\ GCalled("clear") => OneLevelWrite(GPIO_CLEAR_OFFSET, 0) ]_vars

\* The first pin of the second bank was made an output, set, and read as 1.
C12_Witness ==
    /\ gpio.op.name = "read" /\ gpio.op.pin = 32 /\ gpio.op.ret = 1
    /\ Field(gpio.fsel[3], 2) = 1
    /\ OutLevel(gpio, 32) = 1 /\ OutLevel(gpio, 0) = 0

\* ------------------------------------------------------------------- C18
\* C18: GPIO.init(pin, mode) changes, in the function-select register
\* pin div 10, only the 3-bit field of that pin (bits 3*(pin mod 10) to
\* 3*(pin mod 10)+2): it becomes 001 for MODE_OUTPUT and 000 for each input
\* mode; the fields of the other pins in that register and every other
\* register are unchanged, and for MODE_OUTPUT no pull register is written.
C18_FselFrame ==
    [][ GCalled("init") =>
        LET pin  == gpio'.op.pin
            mode == gpio'.op.mode
            r    == pin \div 10
            ws   == GWrites(gpio'.acc)
            fw   == SelectSeq(ws, LAMBDA a : a.addr \notin PullRegs)
        IN  /\ Field(gpio'.fsel[r], pin % 10)
                 = IF mode = MODE_OUTPUT THEN 1 ELSE 0
            /\ \A f \in 0..9 :
                  f # pin % 10 =>
                     Field(gpio'.fsel[r], f) = Field(gpio.fsel[r], f)
            /\ gpio'.fsel[r] < 8 ^ 10
            /\ \A q \in FselRegs \ {r} : gpio'.fsel[q] = gpio.fsel[q]
            /\ gpio'.out = gpio.out
            /\ Len(fw) = 1 /\ fw[1].addr = GPIO_FSEL_OFFSET + 4 * r
            /\ (mode = MODE_OUTPUT) =>
                  /\ Len(ws) = 1
                  /\ gpio'.pull = gpio.pull /\ gpio'.pud = gpio.pud
                  /\ gpio'.clk = gpio.clk ]_vars

\* The last pin of a function-select register whose fields were all in use
\* was made an output, after its first pin was made an input.
C18_Witness ==
    /\ gpio.op.name = "init" /\ gpio.op.pin = 9
    /\ gpio.op.mode = MODE_OUTPUT
    /\ Field(gpio.fsel[0], 9) = 1 /\ Field(gpio.fsel[0], 0) = 0
    /\ Field(gpio.fsel[0], 1) = 2 /\ Field(gpio.fsel[1], 0) = 1

=============================================================================
